---- MODULE Spec2Model ----
(***************************************************************************)
(* Lumino AI recruiting pipeline: the LangGraph workflow                   *)
(* resume_parser -> evaluator -> messaging of backend/lumino_graph.py,     *)
(* the three agents it calls and the way /apply invokes it.                *)
(*                                                                         *)
(* Python values: None is <<>> and a non-None value v of an Optional slot  *)
(* is <<v>>; a dict is a function from its keys; a list is a sequence.     *)
(* A text is a sequence of tokens, so that "contains" is decidable.        *)
(***************************************************************************)
EXTENDS Integers, Sequences, FiniteSets, TLC

None == <<>>
Some(x) == <<x>>

\* {} : the empty dict
EmptyDict == [k \in {} |-> None]

\* dict.get(key, default): the default only when the key is absent
Get(d, k, default) == IF k \in DOMAIN d THEN d[k] ELSE default

\* `x in text` for token texts
Contains(text, tok) == \E i \in 1..Len(text) : text[i] = tok

-----------------------------------------------------------------------------
(* Bounds of the model *)

\* tool calls the text-generation model may issue within one messaging_agent.run
MaxToolCalls == 1

\* the workflow invocations in flight (requests to /apply)
Runs == {"A", "B"}

-----------------------------------------------------------------------------
(* str(int), as json.dumps and f-strings render a score *)

Digit == <<"0", "1", "2", "3", "4", "5", "6", "7", "8", "9">>

RECURSIVE NatToStr(_)
NatToStr(n) == IF n < 10 THEN Digit[n + 1]
               ELSE NatToStr(n \div 10) \o Digit[(n % 10) + 1]

IntToStr(n) == IF n < 0 THEN "-" \o NatToStr(-n) ELSE NatToStr(n)

-----------------------------------------------------------------------------
(* The graph: nodes and edges *)

START == "__start__"
END == "__end__"

Nodes == {"resume_parser", "evaluator", "messaging"}

\* the graph with both text stages as entry points (read-parallel)
EdgesParallel == {<<START, "resume_parser">>,
                  <<START, "evaluator">>,
                  <<"resume_parser", "messaging">>,
                  <<"evaluator", "messaging">>,
                  <<"messaging", END>>}

\* the graph with an edge from messaging back to resume_parser instead of END
EdgesCyclic == {<<START, "resume_parser">>,
                <<"resume_parser", "evaluator">>,
                <<"evaluator", "messaging">>,
                <<"messaging", "resume_parser">>}

Edges == {<<START, "resume_parser">>,
          <<"resume_parser", "evaluator">>,
          <<"evaluator", "messaging">>,
          <<"messaging", END>>}

\* the nodes an edge leads to from node n
Successors(n) == {e[2] : e \in {d \in Edges : d[1] = n}} \ {END}

StateKeys == {"job_description", "resume_text", "parsed_resume", "evaluation",
              "email", "job_role", "candidate_name", "candidate_email"}

-----------------------------------------------------------------------------
(* ResumeParsed and the extraction agent *)

\* fields declared without a default: the reply must carry them (null allowed)
RequiredFields == {"full_name", "email", "phone", "location", "linkedin",
                   "years_experience", "highest_education", "summary"}

\* fields declared "= []"
DefaultedFields == {"skills", "work_experience", "certifications", "languages"}

ResumeFields == RequiredFields \cup DefaultedFields

\* full_name: str is the one required field that rejects null
ResumeParsedValid(raw) ==
    /\ RequiredFields \subseteq DOMAIN raw
    /\ DOMAIN raw \subseteq ResumeFields
    /\ raw["full_name"] # None

\* ResumeParsed(**raw): defaults filled in, full_name a plain str; the object
\* remembers which fields the reply set (pydantic's model_fields_set)
ResumeParsed(raw) ==
    [values |-> [f \in ResumeFields |->
                    IF f = "full_name" THEN raw[f][1]
                    ELSE IF f \in DOMAIN raw THEN raw[f]
                    ELSE <<>>],
     fields_set |-> DOMAIN raw]

\* model_dump(exclude_unset=True): only the keys the reply carried
model_dump_exclude_unset(obj) == [f \in obj.fields_set |-> obj.values[f]]

\* result.output.model_dump(): every field of the model is a key
model_dump(obj) == [f \in DOMAIN obj.values |-> obj.values[f]]

\* What a resume text holds. The texts are opaque; the extraction agent reads
\* a name and possibly an address out of them.
ResumeTexts == {"cvA", "cvB"}
NameIn(text) == IF text = "cvA" THEN "Ada Obi" ELSE "Bob Eze"
EmailIn(text) == IF text = "cvA" THEN "ada@cv.example" ELSE "bob@cv.example"

\* the replies of resume_parser_agent's model to a resume text: complete,
\* sparse (nulls, list fields omitted), a required key missing, a null name
ParserReplies(text) ==
    LET nulls == [f \in RequiredFields |-> None]
        full  == [f \in ResumeFields |->
                    CASE f = "full_name" -> Some(NameIn(text))
                      [] f = "email" -> Some(EmailIn(text))
                      [] f = "years_experience" -> Some(4)
                      [] f = "skills" -> <<"Python">>
                      [] OTHER -> <<>>]
    IN { full,
         [nulls EXCEPT !["full_name"] = Some(NameIn(text))],
         [f \in RequiredFields \ {"summary"} |-> full[f]],
         nulls }

-----------------------------------------------------------------------------
(* Evaluated and the scoring agent *)

\* a JSON value of the reply, tagged with its JSON type
JInt(n) == [type |-> "int", int |-> n, text |-> ""]
JStr(s) == [type |-> "str", int |-> 0, text |-> s]

\* similarity_score: int, reason: str -- no range is declared
EvaluatedValid(raw) ==
    /\ DOMAIN raw = {"similarity_score", "reason"}
    /\ raw["similarity_score"].type = "int"
    /\ raw["reason"].type = "str"

\* Evaluated(**raw).model_dump()
Evaluated(raw) ==
    [similarity_score |-> raw["similarity_score"].int,
     reason |-> raw["reason"].text]

\* the scores the scoring model may answer with: below and at the tone
\* threshold, and beyond the documented 0-100 range
ReplyScores == {40, 85, 150}

ReasonFor(resume_text) == "fit of " \o resume_text

\* prompt = f"Job description:\n{jd}\n\nCandidate resume:\n{resume_text}"
EvaluatorPrompt(jd, resume_text) ==
    <<"Job description:", jd, "Candidate resume:", resume_text>>

\* the replies of evaluator's model to a prompt: a score with its reason, a
\* score that is no integer, a reply without a reason
EvaluatorReplies(prompt) ==
    {[similarity_score |-> JInt(s), reason |-> JStr(ReasonFor(prompt[4]))] :
        s \in ReplyScores}
    \cup {[similarity_score |-> JStr("high"), reason |-> JStr(ReasonFor(prompt[4]))]}
    \cup {[f \in {"similarity_score"} |-> JInt(85)]}

-----------------------------------------------------------------------------
(* The messaging agent: EmailMessage, email_sending, create_and_send_email *)

\* a line break inside a text
LF == "\\n"

HasLinefeed(text) == Contains(text, LF)

\* os.getenv: the variable's value, or None
getenv(env, name) == IF name \in DOMAIN env THEN Some(env[name]) ELSE None

\* the outcomes of aiosmtplib.send: delivered, or the exception it raises
SmtpOutcomes == {"ok", "SMTPAuthenticationError"}

MissingCredentials ==
    <<"Error:", "SENDER_EMAIL and SENDER_PASSWORD must be set in .env file">>

\* email_sending with the SMTP exception left to propagate (no try/except
\* around aiosmtplib.send)
email_sending_unguarded(env, email_info, smtp) ==
    LET sender_email == getenv(env, "SENDER_EMAIL")
        password == getenv(env, "SENDER_PASSWORD")
    IN IF sender_email = None \/ password = None
       THEN [raised |-> None, status |-> MissingCredentials, sends |-> <<>>]
       ELSE IF HasLinefeed(email_info.subject)
       THEN [raised |-> Some("ValueError"), status |-> <<>>, sends |-> <<>>]
       ELSE [raised |-> IF smtp = "ok" THEN None ELSE Some(smtp),
             status |-> IF smtp = "ok"
                        THEN <<"Email successfully sent to", email_info.to_email>>
                        ELSE <<>>,
             sends |-> <<[to_email |-> email_info.to_email,
                          subject |-> email_info.subject,
                          body |-> email_info.body,
                          delivered |-> (smtp = "ok")]>>]

\* email_sending that gives up only when both credentials are missing
\* (`and` in place of `or`)
email_sending_unless_both_missing(env, email_info, smtp) ==
    LET sender_email == getenv(env, "SENDER_EMAIL")
        password == getenv(env, "SENDER_PASSWORD")
    IN IF sender_email = None /\ password = None
       THEN [raised |-> None, status |-> MissingCredentials, sends |-> <<>>]
       ELSE IF HasLinefeed(email_info.subject)
       THEN [raised |-> Some("ValueError"), status |-> <<>>, sends |-> <<>>]
       ELSE [raised |-> None,
             status |-> IF smtp = "ok"
                        THEN <<"Email successfully sent to", email_info.to_email>>
                        ELSE <<"Failed to send email:", smtp>>,
             sends |-> <<[to_email |-> email_info.to_email,
                          subject |-> email_info.subject,
                          body |-> email_info.body,
                          delivered |-> (smtp = "ok")]>>]

\* email_sending(context, email_info): the status string it returns, the
\* exception it raises (building the MIME headers is outside its try), and the
\* calls of aiosmtplib.send it makes
email_sending(env, email_info, smtp) ==
    LET sender_email == getenv(env, "SENDER_EMAIL")
        password == getenv(env, "SENDER_PASSWORD")
    IN IF sender_email = None \/ password = None
       THEN [raised |-> None, status |-> MissingCredentials, sends |-> <<>>]
       ELSE IF HasLinefeed(email_info.subject)
       THEN [raised |-> Some("ValueError"), status |-> <<>>, sends |-> <<>>]
       ELSE [raised |-> None,
             status |-> IF smtp = "ok"
                        THEN <<"Email successfully sent to", email_info.to_email>>
                        ELSE <<"Failed to send email:", smtp>>,
             sends |-> <<[to_email |-> email_info.to_email,
                          subject |-> email_info.subject,
                          body |-> email_info.body,
                          delivered |-> (smtp = "ok")]>>]

\* a send_status that reports a failure
IsErrorStatus(status) ==
    Len(status) > 0 /\ status[1] \in {"Error:", "Failed to send email:"}

\* the tool calls of one messaging_agent.run, in order: each runs email_sending;
\* the first one that raises ends the run with that exception
RECURSIVE RunTools(_, _)
RunTools(env, calls) ==
    IF calls = <<>> THEN [raised |-> None, sends |-> <<>>]
    ELSE LET first == email_sending(env, calls[1].email_info, calls[1].smtp)
         IN IF first.raised # None
            THEN [raised |-> first.raised, sends |-> first.sends]
            ELSE LET rest == RunTools(env, Tail(calls))
                 IN [raised |-> rest.raised, sends |-> first.sends \o rest.sends]

\* the fallback of create_and_send_email with the score in its body
FallbackWithScore(candidate_data, e) ==
    [to_email |-> Get(candidate_data, "candidate_email", Some("")),
     subject |-> <<"Application Update">>,
     body |-> <<"Dear", Get(candidate_data, "candidate_name", "Candidate"),
                ", thank you for your application.",
                IntToStr(candidate_data["similarity_score"])>>,
     send_status |-> <<"Error:", e>>]

\* the except branch of create_and_send_email
Fallback(candidate_data, e) ==
    [to_email |-> Get(candidate_data, "candidate_email", Some("")),
     subject |-> <<"Application Update">>,
     body |-> <<"Dear", Get(candidate_data, "candidate_name", "Candidate"),
                ", thank you for your application.">>,
     send_status |-> <<"Error:", e>>]

\* create_and_send_email(candidate_data). `run` is what messaging_agent.run does
\* with the prompt: the tool calls the model issues (email_sending is registered
\* as a tool of the agent) and its output, None when it yields no EmailMessage;
\* `smtp` is the outcome of the direct send. The value holds the returned dict,
\* the generated content (None when the run raised), the outcome of the direct
\* call of email_sending (None when it was not reached) and every call of
\* aiosmtplib.send, in order.
create_and_send_email(candidate_data, env, run, smtp) ==
    LET tools == RunTools(env, run.calls)
    IN IF tools.raised # None
       THEN [result |-> Fallback(candidate_data, tools.raised[1]),
             generated |-> None, direct |-> None, sends |-> tools.sends]
       ELSE IF run.output = None
       THEN [result |-> Fallback(candidate_data, "UnexpectedModelBehavior"),
             generated |-> None, direct |-> None, sends |-> tools.sends]
       ELSE LET email_content == run.output[1]
                sent == email_sending(env, email_content, smtp)
            IN IF sent.raised # None
               THEN [result |-> Fallback(candidate_data, sent.raised[1]),
                     generated |-> run.output, direct |-> Some(sent),
                     sends |-> tools.sends \o sent.sends]
               ELSE [result |-> [to_email |-> Some(email_content.to_email),
                                 subject |-> email_content.subject,
                                 body |-> email_content.body,
                                 send_status |-> sent.status],
                     generated |-> run.output, direct |-> Some(sent),
                     sends |-> tools.sends \o sent.sends]

\* the address the model writes to when the candidate's is null
UnknownRecipient == "unknown@example.com"

\* the EmailMessage values the model may produce for a prompt
\* (prompt = "Create an email ..." + json.dumps(candidate_data)): an invitation,
\* a decline, a text quoting the score and the rationale, a subject with a
\* line break, a message to another address
GenMessages(candidate_data) ==
    LET name == candidate_data["candidate_name"]
        addr == IF candidate_data["candidate_email"] = None
                THEN UnknownRecipient
                ELSE candidate_data["candidate_email"][1]
        score == IntToStr(candidate_data["similarity_score"])
        reason == candidate_data["evaluation_explanation"]
    IN { [to_email |-> addr, subject |-> <<"Interview Invitation">>,
          body |-> <<"Dear", name, "we invite you to an interview">>],
         [to_email |-> addr, subject |-> <<"Application Update">>,
          body |-> <<"Dear", name, "we will not proceed; do apply again">>],
         [to_email |-> addr, subject |-> <<"Application Update">>,
          body |-> <<"Dear", name, "you scored", score, "because", reason>>],
         [to_email |-> addr, subject |-> <<"Application Update", LF, "Bcc: all">>,
          body |-> <<"Dear", name, "we will not proceed; do apply again">>],
         [to_email |-> "hr@lumino.example", subject |-> <<"Interview Invitation">>,
          body |-> <<"Dear", name, "we invite you to an interview">>] }

\* the tool-call sequences of one run: up to MaxToolCalls calls of email_sending
ToolCalls(candidate_data) ==
    UNION {[1..k -> [email_info : GenMessages(candidate_data), smtp : SmtpOutcomes]] :
              k \in 0..MaxToolCalls}

\* what messaging_agent.run may do with a prompt
AgentRuns(candidate_data) ==
    [calls : ToolCalls(candidate_data),
     output : {None} \cup {Some(m) : m \in GenMessages(candidate_data)}]

-----------------------------------------------------------------------------
(* The text-generation model behind the three agents *)

\* model = GoogleModel('gemini-1.5-flash'): any reply is possible
Gemini == "gemini-1.5-flash"

\* deterministic stand-ins for the model: each answers a prompt with one fixed
\* reply. "stand-in" fills every field, scores by the resume and writes the
\* message for the score without calling a tool; "stand-in-terse" leaves the
\* optional fields null, gives no reason for cvB and yields no EmailMessage.
StandIns == {"stand-in", "stand-in-terse"}

ParserRepliesOf(llm, text) ==
    IF llm = Gemini THEN ParserReplies(text)
    ELSE {raw \in ParserReplies(text) :
             /\ ResumeParsedValid(raw)
             /\ (llm = "stand-in") <=> (raw["email"] # None)}

EvaluatorRepliesOf(llm, prompt) ==
    IF llm = Gemini THEN EvaluatorReplies(prompt)
    ELSE IF llm = "stand-in"
    THEN {[similarity_score |-> JInt(IF prompt[4] = "cvA" THEN 85 ELSE 40),
           reason |-> JStr(ReasonFor(prompt[4]))]}
    ELSE IF prompt[4] = "cvA"
    THEN {[similarity_score |-> JInt(150), reason |-> JStr(ReasonFor(prompt[4]))]}
    ELSE {[f \in {"similarity_score"} |-> JInt(85)]}

AgentRunsOf(llm, candidate_data) ==
    IF llm = Gemini THEN AgentRuns(candidate_data)
    ELSE IF llm = "stand-in"
    THEN {run \in AgentRuns(candidate_data) :
             /\ run.calls = <<>>
             /\ run.output # None
             /\ run.output[1].to_email # "hr@lumino.example"
             /\ ~HasLinefeed(run.output[1].subject)
             /\ ~Contains(run.output[1].body, "because")
             /\ (candidate_data["similarity_score"] >= 85)
                   <=> (run.output[1].subject = <<"Interview Invitation">>)}
    ELSE {[calls |-> <<>>, output |-> None]}

-----------------------------------------------------------------------------
(* The node functions of the graph *)

\* parse_resume that starts from a fresh evaluation
parse_resume_clearing(st, output) ==
    LET s1 == [st EXCEPT !["parsed_resume"] = model_dump(output),
                         !["evaluation"] = EmptyDict]
        s2 == [s1 EXCEPT !["candidate_name"] =
                  Get(s1["parsed_resume"], "full_name", "Candidate")]
    IN [s2 EXCEPT !["candidate_email"] =
           Get(s2["parsed_resume"], "email", Some("test@example.com"))]

\* parse_resume(state), given the agent's validated output
parse_resume(st, output) ==
    LET s1 == [st EXCEPT !["parsed_resume"] = model_dump(output)]
        s2 == [s1 EXCEPT !["candidate_name"] =
                  Get(s1["parsed_resume"], "full_name", "Candidate")]
    IN [s2 EXCEPT !["candidate_email"] =
           Get(s2["parsed_resume"], "email", Some("test@example.com"))]

\* evaluate_candidate that also resets the parsed profile
evaluate_candidate_resetting(st, output) ==
    [st EXCEPT !["evaluation"] = output, !["parsed_resume"] = EmptyDict]

\* evaluate_candidate(state), given the agent's validated output
evaluate_candidate(st, output) == [st EXCEPT !["evaluation"] = output]

\* the email_input dict send_email_node builds
email_input(st) ==
    [candidate_name |-> st["candidate_name"],
     candidate_email |-> st["candidate_email"],
     job_title |-> st["job_role"],
     similarity_score |-> Get(st["evaluation"], "similarity_score", 0),
     evaluation_explanation |-> Get(st["evaluation"], "reason", ""),
     parsed_resume |-> st["parsed_resume"]]

\* send_email_node(state), given what create_and_send_email returned
send_email_node(st, result) ==
    [st EXCEPT !["email"] = [to_email |-> result.to_email,
                             subject |-> result.subject,
                             body |-> result.body]]

\* the state keys each node function reads
Reads(n) ==
    CASE n = "resume_parser" -> {"resume_text"}
      [] n = "evaluator" -> {"job_description", "resume_text"}
      [] n = "messaging" -> {"evaluation", "parsed_resume", "candidate_name",
                             "candidate_email", "job_role"}

\* what a node function sees of the state: the keys it reads
View(st, n) == [k \in Reads(n) |-> st[k]]

-----------------------------------------------------------------------------
(* /apply: the request and the invocation of the workflow *)

\* the job the applications are for (a row of the jobs table)
Job == [id |-> 1, title |-> "AI Engineer", description |-> "Python, ML, cloud"]

\* the form fields of a request
FormNames == {"A. Obi"}
FormEmails == {"ada@form.example", "bob@form.example"}

\* job_id of the form: the id of the job, or an id no row of jobs has
FormJobIds == {Job.id, Job.id + 1}

\* db.query(models.Job).filter(models.Job.id == job_id).first()
FindJob(job_id) == IF job_id = Job.id THEN Some(Job) ELSE None

\* file.filename of the upload: its stem and its extension
Filenames == {[stem |-> "cv", ext |-> ".PDF"], [stem |-> "cv", ext |-> ".docx"]}

\* str.lower() of an extension
lower(ext) == IF ext = ".PDF" THEN ".pdf" ELSE ext

\* file.filename.lower().endswith('.pdf')
IsPdf(filename) == lower(filename.ext) = ".pdf"

\* what extract_text_from_pdf may return for an upload: a resume, no text at
\* all, whitespace only, or a few characters between whitespace
ExtractedTexts == ResumeTexts \cup {"", "blank", "stub"}

\* the characters of a text: the whitespace at its two ends, and the
\* characters from its first to its last non-blank one
Layout(text) ==
    CASE text = "" -> [space |-> 0, ink |-> 0]
      [] text = "blank" -> [space |-> 60, ink |-> 0]
      [] text = "stub" -> [space |-> 10, ink |-> 49]
      [] text = "cvB" -> [space |-> 4, ink |-> 50]
      [] OTHER -> [space |-> 0, ink |-> 400]

\* len(text)
TextLen(text) == Layout(text).space + Layout(text).ink

\* len(text.strip())
StrippedLen(text) == Layout(text).ink

\* the least length of a resume text /apply accepts
MinResumeLength == 50

\* the length test taken on the text as extracted (no strip())
TooShortUnstripped(resume_text) ==
    resume_text = "" \/ TextLen(resume_text) < MinResumeLength

\* `not resume_text or len(resume_text.strip()) < 50`
TooShort(resume_text) ==
    resume_text = "" \/ StrippedLen(resume_text) < MinResumeLength

\* the status of the HTTPException apply_candidates raises for a request, in
\* the order of its checks; None when it raises none
Rejection(job_id, filename, resume_text) ==
    IF FindJob(job_id) = None THEN Some(404)
    ELSE IF ~IsPdf(filename) THEN Some(400)
    ELSE IF TooShort(resume_text) THEN Some(400)
    ELSE None

\* save_to_supabase(file_content, resume_path): the object uploaded to the
\* bucket under resume/{email}_{filename}{uuid}
StoredObject(email, filename, resume_text) ==
    [path |-> <<"resume", email, filename>>, content |-> resume_text]

\* candidate_data of apply_candidates: every key of the state is given
candidate_data(name, email, resume_text) ==
    [k \in StateKeys |->
        CASE k = "job_role" -> Job.title
          [] k = "job_description" -> Job.description
          [] k = "resume_text" -> resume_text
          [] k = "candidate_name" -> name
          [] k = "candidate_email" -> Some(email)
          [] OTHER -> EmptyDict]

\* thread_id = f"apply_{email}_{job_id}"
thread_id(email, job_id) == "apply_" \o email \o "_" \o IntToStr(job_id)

\* ainvoke with an input whose keys do not replace what the thread's
\* checkpoint holds (the saved channel wins over the input)
ResumeFromCheckpoint(checkpoints, tid, input) ==
    LET saved == IF tid \in DOMAIN checkpoints THEN checkpoints[tid] ELSE EmptyDict
    IN [k \in DOMAIN saved \cup DOMAIN input |->
           IF k \in DOMAIN saved THEN saved[k] ELSE input[k]]

\* workflow.ainvoke(input, config) on a compiled graph with a checkpointer: the
\* channels start from the thread's latest checkpoint and every key of the
\* input is written over them
StartChannels(checkpoints, tid, input) ==
    LET saved == IF tid \in DOMAIN checkpoints THEN checkpoints[tid] ELSE EmptyDict
    IN [k \in DOMAIN saved \cup DOMAIN input |->
           IF k \in DOMAIN input THEN input[k] ELSE saved[k]]

\* MemorySaver.put: the thread's latest checkpoint
Put(checkpoints, tid, channels) ==
    [t \in DOMAIN checkpoints \cup {tid} |->
        IF t = tid THEN channels ELSE checkpoints[t]]

\* ainvoke that resumes a thread which already has a checkpoint instead of
\* starting it over: nothing is left to run on it
EntryNodesOfResumedThread(checkpoints, tid) ==
    IF tid \in DOMAIN checkpoints THEN {} ELSE Successors(START)

\* the nodes a call of workflow.ainvoke(input, config) runs first: given an
\* input, the run starts at the nodes START leads to, whatever the thread's
\* checkpoint holds
EntryNodes(checkpoints, tid) == Successors(START)

-----------------------------------------------------------------------------
(* /apply: the rows it writes around the workflow *)

\* models.Candidate(name, email, resume_url, resume_text) of a new application:
\* skills and years_experience are not set yet
CandidateRow(name, email, resume_text) ==
    [name |-> name, email |-> email, resume_text |-> resume_text,
     skills |-> None, years_experience |-> None]

\* the result apply_candidates substitutes when workflow.ainvoke raised
DefaultResult(name, email) ==
    [parsed_resume |-> [full_name |-> name, email |-> Some(email),
                        skills |-> <<>>, years_experience |-> Some(0)],
     evaluation |-> [similarity_score |-> 50,
                     reason |-> "Could not evaluate due to processing error"],
     email |-> [subject |-> <<"Application Received">>,
                body |-> <<"Dear", name, ", we have received your application.">>,
                to_email |-> Some(email)]]

\* `if parsed_resume:` -- update the candidate with the parsed data
UpdateCandidate(candidates, id, parsed_resume) ==
    IF DOMAIN parsed_resume # {}
    THEN [candidates EXCEPT
             ![id].skills = Get(parsed_resume, "skills", <<>>),
             ![id].years_experience = Get(parsed_resume, "years_experience", Some(0))]
    ELSE candidates

\* models.Application(...) of the request
ApplicationRow(job_id, candidate_id, evaluation) ==
    [job_id |-> job_id, candidate_id |-> candidate_id,
     similarity_score |-> Get(evaluation, "similarity_score", 0),
     screening_score |-> Get(evaluation, "similarity_score", 0),
     reason |-> Get(evaluation, "reason", "Application processed")]

\* models.Email(...) of the request: the status is always "sent"
EmailRow(application_id, email_data, email) ==
    [application_id |-> application_id,
     to_email |-> Get(email_data, "to_email", Some(email)),
     subject |-> Get(email_data, "subject", <<"Application Update">>),
     body |-> Get(email_data, "body", <<>>),
     status |-> "sent"]

\* `if email_data and email_data.get("subject"):` add the Email row; the commit
\* of a row whose to_email is null raises (the column is NOT NULL), which the
\* handler catches and ignores
SaveEmail(emails, application_id, email_data, email) ==
    LET row == EmailRow(application_id, email_data, email)
    IN IF /\ DOMAIN email_data # {}
          /\ Get(email_data, "subject", None) # <<>>
          /\ row.to_email # None
       THEN Append(emails, row)
       ELSE emails

-----------------------------------------------------------------------------
(* State *)

VARIABLES
    llm,         \* the text-generation model the agents are configured with
    env,         \* the process environment: the variables that are set
    saver,       \* MemorySaver(): thread_id -> the thread's latest checkpoint
    pc,          \* per run: idle, running, done (ainvoke returned), failed (raised)
    active,      \* per run: the nodes scheduled to execute now
    config,      \* per run: the thread_id of its config
    init_state,  \* per run: the input dict given to ainvoke
    state,       \* per run: the ApplicationState document (the channels)
    executed,    \* per run, per node: how often the node function was entered
    output,      \* per run: what each completed node's collaborator calls returned
    apply,       \* per request: where apply_candidates is, its request, the HTTP
                 \* status, its resume_path, new_candidate and result
    db,          \* the tables: candidates, applications, emails (id = position)
    bucket       \* the objects of the Supabase bucket "resume", in upload order

vars == <<llm, env, saver, pc, active, config, init_state, state, executed, output,
          apply, db, bucket>>

\* SENDER_EMAIL and SENDER_PASSWORD of .env: each set or not
Environments ==
    {[v \in names |-> IF v = "SENDER_EMAIL" THEN "hr@lumino.example" ELSE "app-password"] :
        names \in SUBSET {"SENDER_EMAIL", "SENDER_PASSWORD"}}

\* the process after import, before any request
Boot ==
    /\ env \in Environments
    /\ saver = EmptyDict
    /\ pc = [r \in Runs |-> "idle"]
    /\ active = [r \in Runs |-> {}]
    /\ config = [r \in Runs |-> ""]
    /\ init_state = [r \in Runs |-> EmptyDict]
    /\ state = [r \in Runs |-> EmptyDict]
    /\ executed = [r \in Runs |-> [n \in Nodes |-> 0]]
    /\ output = [r \in Runs |-> EmptyDict]
    /\ apply = [r \in Runs |-> [at |-> "none", request |-> EmptyDict, status |-> 0,
                                 resume_path |-> 0, new_candidate |-> 0,
                                 result |-> EmptyDict]]
    /\ db = [candidates |-> <<>>, applications |-> <<>>, emails |-> <<>>]
    /\ bucket = <<>>

\* record a node's output
Record(outs, n, v) == [m \in DOMAIN outs \cup {n} |-> IF m = n THEN v ELSE outs[m]]

\* apply_candidates up to workflow.ainvoke. A request that fails a check is
\* answered with the HTTPException and nothing is written. Otherwise the file is
\* uploaded, the candidate row is committed, and the run starts at its entry
\* nodes, on the channels ainvoke sets up, with the input checkpoint saved; a
\* run with no node to execute returns at once
Invoke(r) ==
    /\ pc[r] = "idle"
    /\ apply[r].at = "none"
    /\ \E name \in FormNames, email \in FormEmails, job_id \in FormJobIds,
          filename \in Filenames, text \in ExtractedTexts :
          LET request == [job_id |-> job_id, filename |-> filename, text |-> text]
              error == Rejection(job_id, filename, text)
              input == candidate_data(name, email, text)
              tid == thread_id(email, job_id)
              channels == StartChannels(saver, tid, input)
              nodes == EntryNodes(saver, tid)
          IN IF error # None
             THEN /\ apply' = [apply EXCEPT ![r].at = "rejected",
                                            ![r].request = request,
                                            ![r].status = error[1]]
                  /\ UNCHANGED <<db, bucket, init_state, config, state, saver,
                                 active, pc>>
             ELSE /\ bucket' = Append(bucket, StoredObject(email, filename, text))
                  /\ db' = [db EXCEPT !.candidates =
                                Append(@, CandidateRow(name, email, text))]
                  /\ apply' = [apply EXCEPT ![r].at = "awaiting",
                                            ![r].request = request,
                                            ![r].resume_path = Len(bucket) + 1,
                                            ![r].new_candidate = Len(db.candidates) + 1]
                  /\ init_state' = [init_state EXCEPT ![r] = input]
                  /\ config' = [config EXCEPT ![r] = tid]
                  /\ state' = [state EXCEPT ![r] = channels]
                  /\ saver' = Put(saver, tid, channels)
                  /\ active' = [active EXCEPT ![r] = nodes]
                  /\ pc' = [pc EXCEPT ![r] = IF nodes = {} THEN "done" ELSE "running"]
    /\ UNCHANGED <<llm, env, executed, output>>

\* node n of run r returned new_state: its writes are applied, the checkpoint is
\* saved and the nodes its edges lead to are scheduled; with none left, ainvoke
\* returns the document
Complete(r, n, new_state, out) ==
    LET next == (active[r] \ {n}) \cup Successors(n)
    IN /\ state' = [state EXCEPT ![r] = new_state]
       /\ saver' = Put(saver, config[r], new_state)
       /\ active' = [active EXCEPT ![r] = next]
       /\ pc' = [pc EXCEPT ![r] = IF next = {} THEN "done" ELSE "running"]
       /\ executed' = [executed EXCEPT ![r][n] = @ + 1]
       /\ output' = [output EXCEPT ![r] = Record(@, n, out)]
       /\ UNCHANGED <<llm, env, config, init_state, apply, db, bucket>>

\* a node failure that is swallowed: the run goes on to the nodes its edges
\* lead to, on the document as it was
RaiseAndContinue(r, n) ==
    LET next == (active[r] \ {n}) \cup Successors(n)
    IN /\ active' = [active EXCEPT ![r] = next]
       /\ pc' = [pc EXCEPT ![r] = IF next = {} THEN "done" ELSE "running"]
       /\ executed' = [executed EXCEPT ![r][n] = @ + 1]
       /\ UNCHANGED <<llm, env, saver, config, init_state, state, output, apply,
                    db, bucket>>

\* node n of run r raised: ainvoke raises, nothing is written
Raise(r, n) ==
    /\ pc' = [pc EXCEPT ![r] = "failed"]
    /\ active' = [active EXCEPT ![r] = {}]
    /\ executed' = [executed EXCEPT ![r][n] = @ + 1]
    /\ UNCHANGED <<llm, env, saver, config, init_state, state, output, apply,
                    db, bucket>>

\* the resume_parser node
RunParser(r) ==
    /\ pc[r] = "running"
    /\ "resume_parser" \in active[r]
    /\ \E raw \in ParserRepliesOf(llm, View(state[r], "resume_parser")["resume_text"]) :
          IF ResumeParsedValid(raw)
          THEN Complete(r, "resume_parser",
                        parse_resume(state[r], ResumeParsed(raw)), ResumeParsed(raw))
          ELSE Raise(r, "resume_parser")

\* the evaluator node
RunEvaluator(r) ==
    /\ pc[r] = "running"
    /\ "evaluator" \in active[r]
    /\ LET view == View(state[r], "evaluator")
           prompt == EvaluatorPrompt(view["job_description"], view["resume_text"])
       IN \E raw \in EvaluatorRepliesOf(llm, prompt) :
             IF EvaluatedValid(raw)
             THEN Complete(r, "evaluator",
                           evaluate_candidate(state[r], Evaluated(raw)), Evaluated(raw))
             ELSE Raise(r, "evaluator")

\* the messaging node
RunMessaging(r) ==
    /\ pc[r] = "running"
    /\ "messaging" \in active[r]
    /\ LET input == email_input(View(state[r], "messaging"))
       IN \E run \in AgentRunsOf(llm, input), smtp \in SmtpOutcomes :
             LET done == create_and_send_email(input, env, run, smtp)
             IN Complete(r, "messaging", send_email_node(state[r], done.result), done)

\* apply_candidates after workflow.ainvoke: the result is the returned document,
\* or the default when ainvoke raised; the candidate is updated, the Application
\* and the Email rows are written and the candidate is returned
Persist(r) ==
    /\ apply[r].at = "awaiting"
    /\ pc[r] \in {"done", "failed"}
    /\ LET name == init_state[r]["candidate_name"]
           email == init_state[r]["candidate_email"][1]
           id == apply[r].new_candidate
           result == IF pc[r] = "done" THEN state[r] ELSE DefaultResult(name, email)
           parsed_resume == Get(result, "parsed_resume", EmptyDict)
           evaluation == Get(result, "evaluation", EmptyDict)
           email_data == Get(result, "email", EmptyDict)
           application_id == Len(db.applications) + 1
       IN /\ apply' = [apply EXCEPT ![r].at = "returned", ![r].status = 200,
                                    ![r].result = result]
          /\ db' = [candidates |-> UpdateCandidate(db.candidates, id, parsed_resume),
                    applications |-> Append(db.applications,
                                            ApplicationRow(apply[r].request.job_id,
                                                           id, evaluation)),
                    emails |-> SaveEmail(db.emails, application_id, email_data, email)]
    /\ UNCHANGED <<llm, env, saver, pc, active, config, init_state, state,
                   executed, output, bucket>>

\* a step of run r
Step(r) ==
    Invoke(r) \/ RunParser(r) \/ RunEvaluator(r) \/ RunMessaging(r) \/ Persist(r)

\* one request, served by the configured model
Init == llm = Gemini /\ Boot

Next == Step("A")

Spec == Init /\ [][Next]_vars

\* one request whose collaborator calls all return: the node that awaits the
\* model (and, in messaging, the transport) is eventually resumed
SpecFair ==
    Spec /\ WF_vars(RunParser("A") \/ RunEvaluator("A") \/ RunMessaging("A"))

\* concurrent requests, served by a deterministic stand-in for the model
InitStandIn == llm \in StandIns /\ Boot

NextConcurrent == \E r \in Runs : Step(r)

SpecConcurrent == InitStandIn /\ [][NextConcurrent]_vars

-----------------------------------------------------------------------------
(* Properties *)

Completed(r, n) == n \in DOMAIN output[r]

\* C1: in every run the stages execute in the order resume_parser, evaluator,
\* messaging: at most one node is scheduled at any instant, each node function
\* is entered at most once, a node is entered only after its predecessor has
\* completed, and ainvoke returns only after all three have completed.
StagesRunOnceInOrder ==
    \A r \in Runs :
        /\ Cardinality(active[r]) <= 1
        /\ \A n \in Nodes : executed[r][n] <= 1
        /\ (executed[r]["evaluator"] > 0 \/ "evaluator" \in active[r])
              => Completed(r, "resume_parser")
        /\ (executed[r]["messaging"] > 0 \/ "messaging" \in active[r])
              => Completed(r, "evaluator")
        /\ pc[r] = "done" => \A n \in Nodes : Completed(r, n) /\ executed[r][n] = 1
        /\ active[r] # {} => pc[r] = "running"

AllStagesDone == pc["A"] = "done" /\ \A n \in Nodes : executed["A"][n] = 1

\* the credentials email_sending checks
CredentialsSet == getenv(env, "SENDER_EMAIL") # None /\ getenv(env, "SENDER_PASSWORD") # None

\* the message was generated and its transport failed: the direct call of
\* email_sending found a credential missing, or aiosmtplib.send raised in it
TransportFailed(r) ==
    /\ Completed(r, "messaging")
    /\ output[r]["messaging"].generated # None
    /\ output[r]["messaging"].direct # None
    /\ \/ ~CredentialsSet
       \/ /\ output[r]["messaging"].direct[1].sends # <<>>
          /\ ~output[r]["messaging"].direct[1].sends[1].delivered

\* C2: when transport fails after the content was generated, the stage does
\* not raise: its result carries the generated to_email, subject and body
\* unchanged and a status that marks the error, and the run is done with the
\* generated subject and body in state.email.
TransportFailureKeepsContent ==
    \A r \in Runs :
        TransportFailed(r) =>
            LET done == output[r]["messaging"]
                gen == done.generated[1]
            IN /\ done.result.to_email = Some(gen.to_email)
               /\ done.result.subject = gen.subject
               /\ done.result.body = gen.body
               /\ IsErrorStatus(done.result.send_status)
               /\ pc[r] = "done"
               /\ state[r]["email"].subject = gen.subject
               /\ state[r]["email"].body = gen.body
               /\ state[r]["email"].to_email = Some(gen.to_email)

SmtpRaisedAfterGeneration ==
    /\ TransportFailed("A")
    /\ CredentialsSet
    /\ pc["A"] = "done"

\* C3: in no execution of create_and_send_email is the transport
\* (aiosmtplib.send) performed more than once.
TransportAtMostOncePerInvocation ==
    \A r \in Runs :
        Completed(r, "messaging") => Len(output[r]["messaging"].sends) <= 1

\* the content of a result of create_and_send_email
Content(result) ==
    [to_email |-> result.to_email, subject |-> result.subject, body |-> result.body]

\* a run of the agent that yields no EmailMessage
FailedRun == [calls |-> <<>>, output |-> None]

\* C4: when content generation fails, create_and_send_email returns the
\* template: to_email is the input candidate_email, the subject is fixed and
\* the body is built from candidate_name alone, so a failing invocation with the
\* same name and address and any other score, rationale and profile returns the
\* same content; the run is done with that content in state.email.
GenerationFailureYieldsTemplate ==
    \A r \in Runs :
        (Completed(r, "messaging") /\ output[r]["messaging"].generated = None) =>
            LET done == output[r]["messaging"]
                input == email_input(state[r])
            IN /\ done.result.to_email = state[r]["candidate_email"]
               /\ done.result.subject = <<"Application Update">>
               /\ done.result.body = <<"Dear", state[r]["candidate_name"],
                                       ", thank you for your application.">>
               /\ \A s \in ReplyScores \cup {0}, smtp \in SmtpOutcomes :
                     Content(create_and_send_email(
                                [input EXCEPT !.similarity_score = s,
                                              !.evaluation_explanation = "another",
                                              !.parsed_resume = EmptyDict],
                                env, FailedRun, smtp).result)
                        = Content(done.result)
               /\ pc[r] = "done"
               /\ state[r]["email"] = Content(done.result)

GenerationFailed ==
    /\ Completed("A", "messaging")
    /\ output["A"]["messaging"].generated = None
    /\ state["A"]["evaluation"].similarity_score = 150
    /\ pc["A"] = "done"

\* C5: in every run that completes the scoring stage, similarity_score is an
\* integer in 0..100; a score outside that range never enters the document.
ScoreWithinRange ==
    \A r \in Runs :
        Completed(r, "evaluator") =>
            state[r]["evaluation"].similarity_score \in 0..100

\* C6: the body of the message the notification stage produces contains
\* neither the literal score nor the evaluation rationale.
BodyOmitsScoreAndRationale ==
    \A r \in Runs :
        Completed(r, "messaging") =>
            /\ ~Contains(state[r]["email"].body,
                         IntToStr(state[r]["evaluation"].similarity_score))
            /\ ~Contains(state[r]["email"].body, state[r]["evaluation"].reason)

\* the keys the caller gives and no node writes
InputKeys == {"job_description", "resume_text", "job_role"}

\* the node that produces a key of the document
Writer(k) ==
    CASE k \in {"parsed_resume", "candidate_name", "candidate_email"} -> "resume_parser"
      [] k = "evaluation" -> "evaluator"
      [] k = "email" -> "messaging"

\* C7: the document is append-only across stages: no step of a run changes
\* job_description, resume_text or job_role; any other key changes only in a
\* step of the node that produces it (parsed_resume, candidate_name and
\* candidate_email in resume_parser, evaluation in evaluator, email in
\* messaging) and never after that node has completed; and a node that
\* executes reads only input keys and keys whose producer has completed.
DocumentAppendOnly ==
    [][\A r \in Runs :
          pc[r] # "idle" =>
             /\ \A k \in InputKeys : state'[r][k] = state[r][k]
             /\ \A k \in StateKeys \ InputKeys :
                   /\ state'[r][k] # state[r][k] =>
                         executed'[r][Writer(k)] = executed[r][Writer(k)] + 1
                   /\ Completed(r, Writer(k)) => state'[r][k] = state[r][k]
             /\ \A n \in Nodes :
                   executed'[r][n] # executed[r][n] =>
                      \A k \in Reads(n) : k \in InputKeys \/ Completed(r, Writer(k))
      ]_vars

EveryStageWrote ==
    /\ pc["A"] = "done"
    /\ state["A"]["parsed_resume"] # EmptyDict
    /\ state["A"]["evaluation"] # EmptyDict
    /\ state["A"]["email"] # EmptyDict
    /\ state["A"]["candidate_name"] # init_state["A"]["candidate_name"]
    /\ state["A"]["candidate_email"] # init_state["A"]["candidate_email"]

\* C8: after extraction, candidate_name and candidate_email are strings
\* derived from parsed_resume: the extracted full_name and email when the
\* profile has them, otherwise "Candidate" and the sentinel address; in
\* particular candidate_email is never null.
CandidateContactDerived ==
    \A r \in Runs :
        Completed(r, "resume_parser") =>
            LET profile == state[r]["parsed_resume"]
            IN /\ state[r]["candidate_name"] = profile["full_name"]
               /\ state[r]["candidate_email"] =
                     (IF profile["email"] # None THEN profile["email"]
                      ELSE Some("test@example.com"))
               /\ state[r]["candidate_email"] # None

\* C9: whenever extraction succeeds, the parsed_resume merged into the state
\* has every declared profile field as a key.
ParsedResumeHasEveryField ==
    \A r \in Runs :
        Completed(r, "resume_parser") =>
            DOMAIN state[r]["parsed_resume"] = ResumeFields

ReplyOmittedListFields ==
    /\ Completed("A", "resume_parser")
    /\ DefaultedFields \cap output["A"]["resume_parser"].fields_set = {}
    /\ state["A"]["parsed_resume"]["skills"] = <<>>

\* the document of run r as its own input and its own stage outputs make it
OwnDocument(r) ==
    LET d0 == init_state[r]
        d1 == IF Completed(r, "resume_parser")
              THEN parse_resume(d0, output[r]["resume_parser"]) ELSE d0
        d2 == IF Completed(r, "evaluator")
              THEN evaluate_candidate(d1, output[r]["evaluator"]) ELSE d1
    IN IF Completed(r, "messaging")
       THEN send_email_node(d2, output[r]["messaging"].result) ELSE d2

\* C10: in every interleaving of two runs, also on the same thread_id of the
\* shared checkpointer, the document of each run is at every moment the one
\* its own initial fields and its own stage outputs determine.
RunsAreIndependent ==
    \A r \in Runs : pc[r] # "idle" => state[r] = OwnDocument(r)

TwoRunsOnOneThread ==
    /\ pc["A"] = "running" /\ pc["B"] = "running"
    /\ config["A"] = config["B"]
    /\ init_state["A"]["resume_text"] # init_state["B"]["resume_text"]
    /\ Completed("A", "evaluator") /\ Completed("B", "resume_parser")
    /\ saver[config["A"]] = state["B"]
    /\ state["A"] # state["B"]

-----------------------------------------------------------------------------
(* Properties of /apply around the workflow *)

Returned(r) == apply[r].at = "returned"

\* the Application rows written for request r
ApplicationsOf(r) ==
    {i \in 1..Len(db.applications) :
        db.applications[i].candidate_id = apply[r].new_candidate}

\* C11: whatever the outcome of the pipeline inside /apply, the caller ends
\* with a result whose parsed_resume, evaluation (similarity_score, reason) and
\* email (to_email, subject, body) each hold a value that is neither absent
\* nor null, and exactly one Application row exists for the request.
FinalDocumentComplete ==
    \A r \in Runs :
        Returned(r) =>
            LET result == apply[r].result
            IN /\ {"parsed_resume", "evaluation", "email"} \subseteq DOMAIN result
               /\ DOMAIN result["parsed_resume"] # {}
               /\ {"similarity_score", "reason"} \subseteq DOMAIN result["evaluation"]
               /\ {"to_email", "subject", "body"} \subseteq DOMAIN result["email"]
               /\ result["email"]["to_email"] # None
               /\ result["email"]["subject"] # None
               /\ result["email"]["body"] # None
               /\ Cardinality(ApplicationsOf(r)) = 1

\* C12: what a completed stage produced is what the caller persists, whichever
\* later stage fails: once Extraction completed, the caller's parsed_resume
\* (and the skills and years it stores on the candidate) are Extraction's, and
\* once Scoring completed the caller's evaluation (and the Application's score
\* and reason) are Scoring's.
CompletedStagesKept ==
    \A r \in Runs :
        Returned(r) =>
            LET result == apply[r].result
                candidate == db.candidates[apply[r].new_candidate]
            IN /\ Completed(r, "resume_parser") =>
                     LET parsed == model_dump(output[r]["resume_parser"])
                     IN /\ result["parsed_resume"] = parsed
                        /\ candidate.skills = parsed["skills"]
                        /\ candidate.years_experience = parsed["years_experience"]
               /\ Completed(r, "evaluator") =>
                     /\ result["evaluation"] = output[r]["evaluator"]
                     /\ \A i \in ApplicationsOf(r) :
                           /\ db.applications[i].similarity_score =
                                 output[r]["evaluator"].similarity_score
                           /\ db.applications[i].reason = output[r]["evaluator"].reason

-----------------------------------------------------------------------------
(* Properties of repeated and reordered runs, with deterministic stand-ins *)

\* both runs returned from ainvoke, having been given the same input (and so,
\* the same thread_id)
RanTwiceAlike ==
    /\ pc["A"] = "done" /\ pc["B"] = "done"
    /\ init_state["A"] = init_state["B"]
    /\ config["A"] = config["B"]

\* C13: two runs with identical initial fields and the same thread_id, served
\* by a deterministic model, end with identical parsed_resume and identical
\* evaluation, and the second is not cut short by what the first left behind:
\* each run executes every node once and makes its own call of the transport
\* whenever its content was generated and the credentials are set.
RerunIsIdempotent ==
    RanTwiceAlike =>
        /\ state["A"]["parsed_resume"] = state["B"]["parsed_resume"]
        /\ state["A"]["evaluation"] = state["B"]["evaluation"]
        /\ \A r \in Runs :
              /\ \A n \in Nodes : executed[r][n] = 1 /\ Completed(r, n)
              /\ state[r]["parsed_resume"] # EmptyDict
              /\ state[r]["evaluation"] # EmptyDict
              /\ (CredentialsSet /\ output[r]["messaging"].generated # None)
                    => Len(output[r]["messaging"].sends) = 1

\* both runs on one thread completed and each handed a message to the transport
BothRunsSent ==
    /\ RanTwiceAlike
    /\ \A r \in Runs : Len(output[r]["messaging"].sends) = 1

-----------------------------------------------------------------------------
(* Properties of the messaging stage *)

\* system_prompt: "similarity_score >= 85: Congratulate and invite for
\* interview", "similarity_score < 85: Politely decline"
ToneThreshold == 85

\* the tone of a message: an invitation to interview, a polite decline, or
\* neither
Tier(message) ==
    IF Contains(message.body, "we invite you to an interview") THEN "interview"
    ELSE IF Contains(message.body, "we will not proceed; do apply again") THEN "decline"
    ELSE "neither"

\* C14: the tone of the message the messaging stage returns follows one
\* threshold policy, total over the scores 0..100 with an inclusive lower
\* bound: a score of 85 or more gives the interview tier and a score below 85
\* the polite decline, so every score gives exactly one of the two tiers.
ToneFollowsThreshold ==
    \A r \in Runs :
        Completed(r, "messaging") =>
            LET score == output[r]["evaluator"].similarity_score
                tier == Tier(output[r]["messaging"].result)
            IN score \in 0..100 =>
                  /\ (score >= ToneThreshold) => tier = "interview"
                  /\ (score < ToneThreshold) => tier = "decline"

\* C15: with SENDER_EMAIL or SENDER_PASSWORD unset the transport gives up at
\* once: no call of aiosmtplib.send is made in the invocation (none repeated
\* either), the direct call of email_sending returns the configuration
\* diagnostic without raising, the run does not fail, and the generated
\* content is what the stage returns, with that diagnostic as send_status.
MissingCredentialFailsFast ==
    \A r \in Runs :
        (Completed(r, "messaging") /\ ~CredentialsSet) =>
            LET m == output[r]["messaging"]
            IN /\ m.sends = <<>>
               /\ pc[r] = "done"
               /\ m.generated # None =>
                     /\ m.direct # None
                     /\ m.direct[1].raised = None
                     /\ m.direct[1].status = MissingCredentials
                     /\ m.result.send_status = MissingCredentials
                     /\ m.result.to_email = Some(m.generated[1].to_email)
                     /\ m.result.subject = m.generated[1].subject
                     /\ m.result.body = m.generated[1].body
                     /\ state[r]["email"].subject = m.generated[1].subject
                     /\ state[r]["email"].body = m.generated[1].body

\* a message was generated while exactly one of the two credentials was set
GeneratedWithOneCredential ==
    /\ Cardinality(DOMAIN env) = 1
    /\ \E r \in Runs :
          /\ Completed(r, "messaging")
          /\ output[r]["messaging"].generated # None
          /\ output[r]["messaging"].direct # None

-----------------------------------------------------------------------------
(* Properties of a failing run *)

\* node n of run r was entered and did not complete: it raised
StageRaised(r, n) == executed[r][n] > 0 /\ ~Completed(r, n)

\* the nodes after n on the graph
Downstream(n) == Successors(n) \cup UNION {Successors(m) : m \in Successors(n)}

\* the state keys node n writes
Writes(n) ==
    CASE n = "resume_parser" -> {"parsed_resume", "candidate_name", "candidate_email"}
      [] n = "evaluator" -> {"evaluation"}
      [] n = "messaging" -> {"email"}

\* C16: when resume_parser or evaluator raises inside workflow.ainvoke, ainvoke
\* raises to its caller (the caller's except branch supplies the result), no
\* later node of the run is entered, the run transports no message, and the
\* workflow's document holds no substitute for the failed stage: the keys that
\* stage writes are still the ones of the input.
StageFailurePropagates ==
    \A r \in Runs : \A n \in {"resume_parser", "evaluator"} :
        StageRaised(r, n) =>
            /\ pc[r] = "failed"
            /\ active[r] = {}
            /\ \A m \in Downstream(n) : executed[r][m] = 0 /\ ~Completed(r, m)
            /\ \A k \in Writes(n) : state[r][k] = init_state[r][k]
            /\ Returned(r) =>
                  /\ apply[r].result =
                        DefaultResult(init_state[r]["candidate_name"],
                                      init_state[r]["candidate_email"][1])
                  /\ apply[r].result # state[r]

\* Scoring raised after Extraction had completed, and the caller has answered
ScoringRaised ==
    \E r \in Runs :
        /\ Completed(r, "resume_parser")
        /\ StageRaised(r, "evaluator")
        /\ Returned(r)

-----------------------------------------------------------------------------
(* Properties of the messaging stage: transport and recipient *)

\* C17: within one invocation of the messaging stage the transport is called
\* only once content generation has completed successfully, and every message
\* handed to the transport has the recipient, subject and body of the message
\* the stage returns.
TransportFollowsGeneration ==
    \A r \in Runs :
        Completed(r, "messaging") =>
            LET m == output[r]["messaging"]
            IN /\ m.sends # <<>> => m.generated # None
               /\ \A i \in 1..Len(m.sends) :
                     /\ Some(m.sends[i].to_email) = m.result.to_email
                     /\ m.sends[i].subject = m.result.subject
                     /\ m.sends[i].body = m.result.body

-----------------------------------------------------------------------------
(* Properties of the order of the two text stages *)

\* the document after evaluate_candidate and then parse_resume, each on what it
\* reads of the document before it, with the replies of the deterministic model
ScoringThenExtraction(doc) ==
    LET view == View(doc, "evaluator")
        prompt == EvaluatorPrompt(view["job_description"], view["resume_text"])
        scored == evaluate_candidate(doc,
                      Evaluated(CHOOSE raw \in EvaluatorRepliesOf(llm, prompt) : TRUE))
        text == View(scored, "resume_parser")["resume_text"]
    IN parse_resume(scored,
                    ResumeParsed(CHOOSE raw \in ParserRepliesOf(llm, text) : TRUE))

RecipientIsCandidate ==
    \A r \in Runs :
        pc[r] = "done" =>
            /\ state[r]["email"].to_email = state[r]["candidate_email"]
            /\ \A i \in 1..Len(output[r]["messaging"].sends) :
                  Some(output[r]["messaging"].sends[i].to_email)
                     = state[r]["candidate_email"]

-----------------------------------------------------------------------------
(* Properties of the Email rows of /apply *)

\* the Email rows written for request r
EmailsOf(r) ==
    {i \in 1..Len(db.emails) : db.emails[i].application_id \in ApplicationsOf(r)}

\* the message of run r was delivered: the direct call of email_sending handed
\* it to SMTP and SMTP accepted it
Delivered(r) ==
    /\ pc[r] = "done"
    /\ output[r]["messaging"].direct # None
    /\ \E i \in 1..Len(output[r]["messaging"].direct[1].sends) :
          output[r]["messaging"].direct[1].sends[i].delivered

\* C20: /apply writes an Email row with status "sent" only for an application
\* whose message was delivered: none when the transport reported an error,
\* when generation fell back to the template without sending, or when ainvoke
\* raised and the caller substituted its default email.
SentRowMeansDelivered ==
    \A r \in Runs :
        Returned(r) =>
            \A i \in EmailsOf(r) : db.emails[i].status = "sent" => Delivered(r)

-----------------------------------------------------------------------------
(* Properties of termination *)

\* how many node functions run r has entered
StageExecutions(r) ==
    executed[r]["resume_parser"] + executed[r]["evaluator"] + executed[r]["messaging"]

\* ainvoke of run r returned the final document, or raised
Finished(r) ==
    \/ pc[r] = "failed"
    \/ /\ pc[r] = "done"
       /\ \A k \in {"parsed_resume", "evaluation", "email"} : state[r][k] # EmptyDict

\* C21: a run whose collaborator calls all return (run A, the one the fair
\* specification drives) terminates: once started it
\* reaches done with a final document or fails with the error raised to the
\* caller, it never enters more than three node functions, and while it is
\* unfinished there is a node awaiting its collaborator.
RunTerminates ==
    /\ [][\A r \in Runs :
             /\ StageExecutions(r)' <= Cardinality(Nodes)
             /\ pc'[r] = "running" => active'[r] # {}]_vars
    /\ (pc["A"] = "running") ~> Finished("A")

\* a run returned its final document after three node executions
FinishedAfterThreeStages ==
    \E r \in Runs : pc[r] = "done" /\ Finished(r) /\ StageExecutions(r) = Cardinality(Nodes)

-----------------------------------------------------------------------------
(* Properties of the checks of /apply *)

\* the requests that passed the checks of apply_candidates
Accepted == {r \in Runs : apply[r].at \in {"awaiting", "returned"}}

\* C22: /apply never starts the workflow on a resume text that is empty or has
\* fewer than 50 characters once stripped: such a request is answered with an
\* error, with no object uploaded, no Candidate row written and no node
\* executed for it; and a request whose workflow has started has its upload
\* stored and its Candidate row committed.
ShortResumeRejectedFirst ==
    /\ Len(bucket) = Cardinality(Accepted)
    /\ Len(db.candidates) = Cardinality(Accepted)
    /\ \A r \in Runs :
          /\ (/\ apply[r].at # "none"
              /\ \/ apply[r].request.text = ""
                 \/ StrippedLen(apply[r].request.text) < MinResumeLength) =>
                /\ apply[r].at = "rejected"
                /\ apply[r].status \in {400, 404}
                /\ apply[r].resume_path = 0
                /\ apply[r].new_candidate = 0
                /\ pc[r] = "idle"
                /\ init_state[r] = EmptyDict
                /\ \A n \in Nodes : executed[r][n] = 0
          /\ pc[r] # "idle" =>
                /\ r \in Accepted
                /\ state[r]["resume_text"] # ""
                /\ StrippedLen(state[r]["resume_text"]) >= MinResumeLength
                /\ apply[r].resume_path \in 1..Len(bucket)
                /\ bucket[apply[r].resume_path].content = state[r]["resume_text"]
                /\ apply[r].new_candidate \in 1..Len(db.candidates)
                /\ db.candidates[apply[r].new_candidate].resume_text
                      = state[r]["resume_text"]

\* a PDF for an existing job whose text is long as extracted but has too few
\* characters once stripped was answered with 400
PaddedShortResumeRejected ==
    \E r \in Runs :
        /\ apply[r].at = "rejected"
        /\ apply[r].status = 400
        /\ FindJob(apply[r].request.job_id) # None
        /\ IsPdf(apply[r].request.filename)
        /\ TextLen(apply[r].request.text) >= MinResumeLength
        /\ StrippedLen(apply[r].request.text) < MinResumeLength
====
